---- MODULE Spec2Model ----
(***************************************************************************)
(* A model of ipmmap's struct_mmap_manager.py: accessors (Editor, Manager) *)
(* of one (structName, tag) key over one memory-mapped backing file.       *)
(*                                                                         *)
(* The record layout is the one of the Telemetry example, with a nested    *)
(* structure so that dotted paths have something to navigate:              *)
(*   Telemetry { header: Header { magic: c_uint32, time_stamp: c_double }, *)
(*               speed: c_float, pos: Pos { x: c_uint8 } }                 *)
(* The file is modelled at the granularity of one cell per leaf field.     *)
(***************************************************************************)
EXTENDS Integers, Sequences, FiniteSets, TLC

\* ------------------------------------------------------------------ bounds
MaxClock == 2
MaxTagLen == 3
MaxOrphans == 2

\* ------------------------------------------------------- program constants
MAGIC == 4392
UInt8Mod == 256
SizeInCells == 4
NoMap == 0
NotOpenStamp == -1

\* -------------------------------------------------------------- accessors
Editors == {"e1", "e2"}
Managers == {"m1"}
Accessors == Editors \cup Managers
\* The accessors that make the calls of the sequential specification.
SeqAccessors == {"e1", "m1"}

\* ------------------------------------------------------- python values
IntV(n) == [k |-> "int", n |-> n]
FloatV(n) == [k |-> "float", n |-> n]
StrV == [k |-> "str", n |-> 0]
NoneV == [k |-> "None", n |-> 0]
StructV(ty, cells) == [k |-> "struct", ty |-> ty, cells |-> cells]

\* ------------------------------------------------------------- the layout
StructTypes == {"Telemetry", "Header", "Pos"}

Fields(ty) ==
    CASE ty = "Telemetry" -> {"header", "speed", "pos"}
      [] ty = "Header" -> {"magic", "time_stamp"}
      [] ty = "Pos" -> {"x"}

FieldType(ty, f) ==
    CASE ty = "Telemetry" /\ f = "header" -> "Header"
      [] ty = "Telemetry" /\ f = "speed" -> "c_float"
      [] ty = "Telemetry" /\ f = "pos" -> "Pos"
      [] ty = "Header" /\ f = "magic" -> "c_uint32"
      [] ty = "Header" /\ f = "time_stamp" -> "c_double"
      [] ty = "Pos" /\ f = "x" -> "c_uint8"

\* Offset of a field in its structure, and a structure's size, in cells.
FieldOffset(ty, f) ==
    CASE ty = "Telemetry" /\ f = "header" -> 0
      [] ty = "Telemetry" /\ f = "speed" -> 2
      [] ty = "Telemetry" /\ f = "pos" -> 3
      [] ty = "Header" /\ f = "magic" -> 0
      [] ty = "Header" /\ f = "time_stamp" -> 1
      [] ty = "Pos" /\ f = "x" -> 0

SizeOf(ty) ==
    CASE ty = "Telemetry" -> SizeInCells
      [] ty = "Header" -> 2
      [] ty = "Pos" -> 1
      [] OTHER -> 1

\* Cell indices (1-based) of the leaf fields of the record.
MagicCell == 1
StampCell == 2
SpeedCell == 3
XCell == 4

\* ctypes' setfunc of a simple type: what storing python value v in a field
\* of type ft does. Integer types take python ints and keep the low bits;
\* float types take ints and floats; everything else is a TypeError.
Encode(ft, v) ==
    CASE ft = "c_uint8" ->
            IF v.k = "int" THEN [ok |-> TRUE, cell |-> v.n % UInt8Mod]
            ELSE [ok |-> FALSE, cell |-> 0]
      [] ft = "c_uint32" ->
            \* every int of the model is in 0 .. 2^31 - 1, its own low 32 bits
            IF v.k = "int" THEN [ok |-> TRUE, cell |-> v.n]
            ELSE [ok |-> FALSE, cell |-> 0]
      [] ft \in {"c_float", "c_double"} ->
            IF v.k \in {"int", "float"} THEN [ok |-> TRUE, cell |-> v.n]
            ELSE [ok |-> FALSE, cell |-> 0]
      [] OTHER -> [ok |-> FALSE, cell |-> 0]

\* ctypes' getfunc of a simple type: the python value read from a cell.
Decode(ft, c) ==
    IF ft \in {"c_float", "c_double"} THEN FloatV(c) ELSE IntV(c)

\* ------------------------------------------------- objects while navigating
\* A ctypes structure instance over a buffer, or a plain python value.
View(ty, base) == [kind |-> "struct", ty |-> ty, base |-> base, val |-> NoneV]
Leaf(v) == [kind |-> "leaf", ty |-> "", base |-> 0, val |-> v]

\* getattr(obj, k) on a buffer buf.
GetAttr(buf, obj, k) ==
    IF obj.kind = "struct" /\ k \in Fields(obj.ty)
    THEN LET ft == FieldType(obj.ty, k)
             off == obj.base + FieldOffset(obj.ty, k)
         IN  IF ft \in StructTypes
             THEN [status |-> "ok", obj |-> View(ft, off)]
             ELSE [status |-> "ok", obj |-> Leaf(Decode(ft, buf[off + 1]))]
    ELSE [status |-> "AttributeError", obj |-> obj]

\* for k in keys: val = getattr(val, k)
RECURSIVE Navigate(_, _, _)
Navigate(buf, obj, keys) ==
    IF keys = <<>> THEN [status |-> "ok", obj |-> obj]
    ELSE LET r == GetAttr(buf, obj, Head(keys))
         IN  IF r.status = "ok" THEN Navigate(buf, r.obj, Tail(keys)) ELSE r

\* The python value an object stands for (a structure is returned as such).
ValueOf(buf, obj) ==
    IF obj.kind = "leaf" THEN obj.val
    ELSE StructV(obj.ty, SubSeq(buf, obj.base + 1, obj.base + SizeOf(obj.ty)))

\* A setattr that takes the field's offset in its own structure for its offset
\* in the record.
SetAttr_NoBase(buf, obj, k, v) ==
    IF obj.kind = "leaf"
    THEN [status |-> "AttributeError", buf |-> buf]
    ELSE IF k \notin Fields(obj.ty)
    THEN [status |-> "ok", buf |-> buf]
    ELSE LET ft == FieldType(obj.ty, k)
             off == FieldOffset(obj.ty, k)
             e == Encode(ft, v)
         IN  IF ft \in StructTypes \/ ~e.ok
             THEN [status |-> "TypeError", buf |-> buf]
             ELSE [status |-> "ok", buf |-> [buf EXCEPT ![off + 1] = e.cell]]

\* setattr(obj, k, v) on a mutable buffer buf: the status and the new buffer.
SetAttr(buf, obj, k, v) ==
    IF obj.kind = "leaf"
    THEN [status |-> "AttributeError", buf |-> buf]
    ELSE IF k \notin Fields(obj.ty)
    THEN \* a new python attribute of the temporary object: nothing is stored
         [status |-> "ok", buf |-> buf]
    ELSE LET ft == FieldType(obj.ty, k)
             off == obj.base + FieldOffset(obj.ty, k)
             e == Encode(ft, v)
         IN  IF ft \in StructTypes \/ ~e.ok
             THEN [status |-> "TypeError", buf |-> buf]
             ELSE [status |-> "ok", buf |-> [buf EXCEPT ![off + 1] = e.cell]]

Root == View("Telemetry", 0)

\* structType.from_buffer_copy(mm) / from_buffer(mm): the first SizeInCells
\* cells of the mapping.
FromBuffer(data) == SubSeq(data, 1, SizeInCells)

\* ctypes.memset(byref(mmData), 0, sizeof(mmData))
Memset0(data) == [i \in 1..Len(data) |-> IF i <= SizeInCells THEN 0 ELSE data[i]]

\* structType(MmapStructureHeader(0x1128, time.time()))
GenerateStruct(now) == <<MAGIC, now, 0, 0>>

\* -------------------------------------------------------- the file paths
\* Strings are sequences of characters; the struct's name is one token.
StructName == <<"Telemetry">>
TagChars == {"a", ".", "_"}
Tags == UNION {[1..n -> TagChars] : n \in 0..MaxTagLen}

\* "{}_{}".format(self.structType.__name__, tag)
Format(name, tag) == name \o <<"_">> \o tag

\* str.rfind, 1-based: the last position of ch in s, 0 when there is none.
Rfind(s, ch) ==
    LET I == {i \in 1..Len(s) : s[i] = ch}
    IN  IF I = {} THEN 0 ELSE CHOOSE i \in I : \A j \in I : j <= i

\* PurePath.suffix of a final component: from its last dot on, unless that
\* dot is its first or its last character.
Suffix(name) ==
    LET p == Rfind(name, ".")
    IN  IF 1 < p /\ p < Len(name) THEN SubSeq(name, p, Len(name)) ELSE <<>>

\* PurePath.with_suffix: the old suffix, if any, is replaced.
WithSuffix(name, suffix) ==
    SubSeq(name, 1, Len(name) - Len(Suffix(name))) \o suffix

\* (dir / fileName).with_suffix('.mmap').resolve(): resolve() acts on the
\* directories and leaves the final component as it is.
MmapFilePath(name, tag) ==
    <<"mmapDir", "/">> \o WithSuffix(Format(name, tag), <<".", "mmap">>)

FastenerFilePath(name, tag) ==
    <<"fastenerDir", "/">> \o WithSuffix(Format(name, tag), <<".", "lockfile">>)

\* ------------------------------------------------------------------ state
VARIABLES
    fileExists,   \* the backing file mmapFilePath exists
    fileData,     \* its contents, one cell per leaf field (Len = its length)
    clock,        \* time.time()
    mm,           \* self.mm of each accessor: NoMap, or the mapping's length
    fs_master,    \* self.fs_master of each Manager: "None", "open", "closed"
    mm_master,    \* self.mm_master of each Manager: NoMap, or its length
    last,         \* the last call made: who, what, arguments, outcome
    proc,         \* each Editor's call in progress, when calls are not atomic
    cands,        \* for each read in progress, the records it may return
                  \*   if every call is atomic
    expect,       \* for each cell, the value the last writeData left in it
    orphans,      \* for each Manager, the handles (descriptors, mappings) it
                  \*   opened, no longer references and never closed
    creating,     \* the construction of a Manager in progress, when the two
                  \*   system calls of _createNewMmapFile are not atomic
    tags,         \* the tag each accessor instance is constructed with
    paths         \* mmapFilePath and fastenerFilePath of each instance

concVars == <<proc, cands, expect>>
pathVars == <<tags, paths>>
\* The variables no call of the sequential specification touches.
otherVars == <<concVars, creating, pathVars>>
vars == <<fileExists, fileData, clock, mm, fs_master, mm_master, last,
          proc, cands, expect, orphans, creating, tags, paths>>

\* ----------------------------------------------------------------- inputs
Keys ==
    { <<"header", "time_stamp">>, <<"speed">>, <<"pos", "x">>, <<"pos">>,
      <<"missing">>, <<"pos", "missing">>, <<"speed", "z">>, <<"missing", "z">> }

LeafKeys == { <<"header", "time_stamp">>, <<"speed">>, <<"pos", "x">> }

\* The cell and the type of a leaf path.
KeyCell(key) ==
    CASE key = <<"header", "time_stamp">> -> StampCell
      [] key = <<"speed">> -> SpeedCell
      [] key = <<"pos", "x">> -> XCell

KeyType(key) ==
    CASE key = <<"header", "time_stamp">> -> "c_double"
      [] key = <<"speed">> -> "c_float"
      [] key = <<"pos", "x">> -> "c_uint8"

\* (key, value) pairs written: every leaf with a value of its type, of
\* another number type and of no number type, an int wider than c_uint8,
\* and the paths that do not name a leaf.
WriteInputs ==
    (LeafKeys \X {IntV(1), FloatV(1), StrV})
        \cup { << <<"pos", "x">>, IntV(UInt8Mod + 1) >>, << <<"speed">>, FloatV(0) >> }
        \cup ((Keys \ LeafKeys) \X {IntV(1)})

\* Files another program may have left at the path before the first call.
ForeignFiles == { <<>>, <<1>>, <<1, 1, 0, 0, 0>> }

IoOutcomes == {"ok", "openFail", "writeFail"}

NoCall ==
    [acc |-> "", op |-> "", key |-> <<>>, val |-> NoneV,
     status |-> "ok", ret |-> NoneV]

Call(a, op, key, val, status, ret) ==
    [acc |-> a, op |-> op, key |-> key, val |-> val,
     status |-> status, ret |-> ret]

IdleProc ==
    [pc |-> "idle", op |-> "", key |-> <<>>, val |-> NoneV, buf |-> <<>>]
NoCands == [any |-> FALSE, set |-> {}]
NoExpect == [by |-> "", cell |-> 0, raced |-> FALSE]

\* The accessor instances whose paths are compared.
Instances == {"i1", "i2"}
NoPaths == [mmapFilePath |-> <<>>, fastenerFilePath |-> <<>>]
IdleCreate == [pc |-> "idle", force |-> FALSE, dataStruct |-> <<>>]

\* No handle is orphaned, no construction is in progress, and the instances
\* are not constructed yet.
OtherInit ==
    /\ orphans = [a \in Managers |-> 0]
    /\ creating = IdleCreate
    /\ paths = [i \in Instances |-> NoPaths]

Init ==
    /\ \/ fileExists = FALSE /\ fileData = <<>>
       \/ fileExists = TRUE /\ fileData \in ForeignFiles
    /\ clock = 1
    /\ mm = [a \in Accessors |-> NoMap]
    /\ fs_master = [a \in Managers |-> "None"]
    /\ mm_master = [a \in Managers |-> NoMap]
    /\ last = NoCall
    /\ proc = [a \in Editors |-> IdleProc]
    /\ cands = [a \in Editors |-> NoCands]
    /\ expect = [c \in 1..SizeInCells |-> NoExpect]
    /\ OtherInit
    /\ tags = [i \in Instances |-> <<>>]

\* --------------------------------------------------- the state of a mapping
\* What touching self.mm of accessor a does: "none" (self.mm is None),
\* "small" (from_buffer: buffer size too small), "bus" (the file was truncated
\* under the mapping: the access kills the process), or "ok".
MapState(a) ==
    IF mm[a] = NoMap THEN "none"
    ELSE IF mm[a] < SizeInCells THEN "small"
    ELSE IF Len(fileData) = 0 THEN "bus"
    ELSE "ok"

\* The accessor's process died: its mapping is gone.
Killed(a) == mm' = [mm EXCEPT ![a] = NoMap]

\* Time passes between calls.
Tick ==
    /\ clock < MaxClock
    /\ clock' = clock + 1
    /\ UNCHANGED <<fileExists, fileData, mm, fs_master, mm_master, last>>
    /\ UNCHANGED <<otherVars, orphans>>

\* ------------------------------------------------------------ file creation
\* _createNewMmapFile: open(path, "wb") truncates or creates the file, write
\* fills it; any exception of either is swallowed.
CreateNewMmapFile(dataStruct, io) ==
    CASE io = "ok" -> fileExists' = TRUE /\ fileData' = dataStruct
      [] io = "writeFail" -> fileExists' = TRUE /\ fileData' = <<>>
      [] io = "openFail" -> UNCHANGED <<fileExists, fileData>>

\* A constructor that does not test exists(): create alone rewrites the file.
ManagerInit_NoExistsCheck(create, force, io) ==
    /\ IF create
       THEN CreateNewMmapFile(GenerateStruct(clock), io)
       ELSE io = "ok" /\ UNCHANGED <<fileExists, fileData>>
    /\ last' = Call("new", "init", <<>>,
                    [k |-> "args", create |-> create, force |-> force],
                    "ok", NoneV)
    /\ UNCHANGED <<clock, mm, fs_master, mm_master>>
    /\ UNCHANGED <<otherVars, orphans>>

\* DataStructMmapManager.__init__(create, force) of a Manager constructed
\* for the key; it maps nothing.
ManagerInit(create, force, io) ==
    /\ IF create /\ (force \/ ~fileExists)
       THEN CreateNewMmapFile(GenerateStruct(clock), io)
       ELSE io = "ok" /\ UNCHANGED <<fileExists, fileData>>
    /\ last' = Call("new", "init", <<>>,
                    [k |-> "args", create |-> create, force |-> force],
                    "ok", NoneV)
    /\ UNCHANGED <<clock, mm, fs_master, mm_master>>
    /\ UNCHANGED <<otherVars, orphans>>

\* ------------------------------------------------------ opening and closing
\* The open of a Reader or Editor (AbstractMmapManger.openMemory): maps the
\* whole backing file as self.mm; a missing file and a file of the wrong
\* length are errors.
OpenStatus ==
    IF ~fileExists THEN "StoreNotFoundError"
    ELSE IF Len(fileData) # SizeInCells THEN "CorruptStoreError"
    ELSE "ok"

openStore(a) ==
    /\ a \in Editors
    /\ mm[a] = NoMap
    /\ mm' = [mm EXCEPT ![a] = IF OpenStatus = "ok" THEN Len(fileData) ELSE NoMap]
    /\ last' = Call(a, "openStore", <<>>, NoneV, OpenStatus, NoneV)
    /\ UNCHANGED <<fileExists, fileData, clock, fs_master, mm_master>>
    /\ UNCHANGED <<otherVars, orphans>>

\* DataStructMmapManager.openMemory: open(path, 'r+b'), then mmap of the whole
\* file into self.mm_master. self.mm is not assigned.
OpenMemoryStatus ==
    IF ~fileExists THEN "FileNotFoundError"
    ELSE IF Len(fileData) = 0 THEN "ValueError"
    ELSE "ok"

\* Assigning self.fs_master and self.mm_master drops the instance's reference
\* to the handles bound before; nothing closes them. Whether a dropped handle
\* that is still open is finalized at once is the interpreter's business
\* (release: reference counting, and no other reference), not the code's.
Dropped(a) ==
    (IF fileExists /\ fs_master[a] = "open" THEN 1 ELSE 0)
        + (IF OpenMemoryStatus = "ok" /\ mm_master[a] # NoMap THEN 1 ELSE 0)

openMemory(a, release) ==
    /\ a \in Managers
    /\ release \/ (Dropped(a) > 0 /\ orphans[a] + Dropped(a) <= MaxOrphans)
    /\ fs_master' = [fs_master EXCEPT ![a] = IF fileExists THEN "open" ELSE @]
    /\ mm_master' = [mm_master EXCEPT
                        ![a] = IF OpenMemoryStatus = "ok" THEN Len(fileData) ELSE @]
    /\ orphans' = [orphans EXCEPT ![a] = IF release THEN @ ELSE @ + Dropped(a)]
    /\ last' = Call(a, "openMemory", <<>>, NoneV, OpenMemoryStatus, NoneV)
    /\ UNCHANGED <<fileExists, fileData, clock, mm>>
    /\ UNCHANGED otherVars

\* A closeMemory that closes self.mm_master without testing it for None.
CloseMemoryOn_NoNoneTest(mmm, fsm) ==
    [mm_master |-> NoMap,
     fs_master |-> IF mmm = NoMap \/ fsm = "None" THEN fsm ELSE "closed",
     closes |-> IF mmm = NoMap THEN <<>> ELSE <<"mm_master", "fs_master">>,
     reclosed |-> 0,
     status |-> IF mmm = NoMap THEN "AttributeError" ELSE "ok"]

\* The body of closeMemory on the two attributes: what they become, the
\* close() calls made in their order, how many of them were made on a handle
\* already closed, and the outcome.
CloseMemoryOn(mmm, fsm) ==
    [mm_master |-> NoMap,
     fs_master |-> IF fsm = "None" THEN "None" ELSE "closed",
     closes |-> (IF mmm # NoMap THEN <<"mm_master">> ELSE <<>>)
                    \o (IF fsm # "None" THEN <<"fs_master">> ELSE <<>>),
     reclosed |-> IF fsm = "closed" THEN 1 ELSE 0,
     status |-> "ok"]

\* DataStructMmapManager.closeMemory
closeMemory(a) ==
    /\ a \in Managers
    /\ LET r == CloseMemoryOn(mm_master[a], fs_master[a])
       IN  /\ mm_master' = [mm_master EXCEPT ![a] = r.mm_master]
           /\ fs_master' = [fs_master EXCEPT ![a] = r.fs_master]
           /\ last' = Call(a, "closeMemory", <<>>, NoneV, r.status,
                           [k |-> "closes", n |-> r.reclosed, seq |-> r.closes])
    /\ UNCHANGED <<fileExists, fileData, clock, mm>>
    /\ UNCHANGED <<otherVars, orphans>>

\* ------------------------------------------------------------ reader tier
\* What a call that decodes the mapping without checking self.mm ends with
\* when the mapping cannot be decoded.
AccessError(a) ==
    CASE MapState(a) = "none" -> "AttributeError"
      [] MapState(a) = "small" -> "ValueError"
      [] MapState(a) = "bus" -> "SIGBUS"
      [] OTHER -> "ok"

\* A call that does not test self.mm.
GuardedError_NoGuard(a) == AccessError(a)

\* The same for a call that returns early when self.mm is None.
GuardedError(a) == IF MapState(a) = "none" THEN "ok" ELSE AccessError(a)

\* The outcome of readData(key) on a decoded copy buf of the mapping.
ReadDataOn(buf, key) ==
    LET r == Navigate(buf, Root, key)
    IN  IF r.status = "ok"
        THEN [status |-> "ok", ret |-> ValueOf(buf, r.obj)]
        ELSE [status |-> r.status, ret |-> NoneV]

\* BaseStructMmapManager.getLastUpdate
GetLastUpdateOn(buf) == ReadDataOn(buf, <<"header", "time_stamp">>).ret

getLastUpdate(a) ==
    /\ last' = Call(a, "getLastUpdate", <<>>, NoneV, GuardedError(a),
                    CASE MapState(a) = "none" -> IntV(NotOpenStamp)
                      [] MapState(a) = "ok" -> GetLastUpdateOn(FromBuffer(fileData))
                      [] OTHER -> NoneV)
    /\ IF MapState(a) = "bus" THEN Killed(a) ELSE UNCHANGED mm
    /\ UNCHANGED <<fileExists, fileData, clock, fs_master, mm_master>>
    /\ UNCHANGED <<otherVars, orphans>>

\* DataStructMmapReader.readData
readData(a, key) ==
    /\ LET r == IF MapState(a) = "ok"
                THEN ReadDataOn(FromBuffer(fileData), key)
                ELSE [status |-> AccessError(a), ret |-> NoneV]
       IN  last' = Call(a, "readData", key, NoneV, r.status, r.ret)
    /\ IF MapState(a) = "bus" THEN Killed(a) ELSE UNCHANGED mm
    /\ UNCHANGED <<fileExists, fileData, clock, fs_master, mm_master>>
    /\ UNCHANGED <<otherVars, orphans>>

\* A readMappedBuffer that returns from_buffer(self.mm): a view of the mapping.
ReadMappedBufferRet_FromBuffer(data) == [k |-> "view", n |-> 0]

\* What readMappedBuffer returns: from_buffer_copy(self.mm), a record with
\* memory of its own holding a copy of the mapped cells.
ReadMappedBufferRet(data) == StructV("Telemetry", FromBuffer(data))

\* DataStructMmapReader.readMappedBuffer
readMappedBuffer(a) ==
    /\ last' = Call(a, "readMappedBuffer", <<>>, NoneV, GuardedError(a),
                    IF MapState(a) = "ok"
                    THEN ReadMappedBufferRet(fileData)
                    ELSE NoneV)
    /\ IF MapState(a) = "bus" THEN Killed(a) ELSE UNCHANGED mm
    /\ UNCHANGED <<fileExists, fileData, clock, fs_master, mm_master>>
    /\ UNCHANGED <<otherVars, orphans>>

\* ------------------------------------------------------------ editor tier
\* An updateLastUpdate that writes a whole new header, magic included.
UpdateLastUpdateOn_WholeHeader(data, now) ==
    [data EXCEPT ![MagicCell] = MAGIC, ![StampCell] = now]

\* DataStructMmapEditor.updateLastUpdate on the mapped cells
UpdateLastUpdateOn(data, now) ==
    SetAttr(data, View("Header", 0), "time_stamp", FloatV(now)).buf

updateLastUpdate(a) ==
    /\ last' = Call(a, "updateLastUpdate", <<>>, NoneV, GuardedError(a), NoneV)
    /\ fileData' = IF MapState(a) = "ok"
                   THEN UpdateLastUpdateOn(fileData, clock) ELSE fileData
    /\ IF MapState(a) = "bus" THEN Killed(a) ELSE UNCHANGED mm
    /\ UNCHANGED <<fileExists, clock, fs_master, mm_master>>
    /\ UNCHANGED <<otherVars, orphans>>

\* The body of writeData on the mapped cells: walk keyList[:-1] with getattr,
\* then setattr the last segment.
WriteDataOn(data, key, value) ==
    LET nav == Navigate(data, Root, SubSeq(key, 1, Len(key) - 1))
    IN  IF nav.status = "ok"
        THEN SetAttr(data, nav.obj, key[Len(key)], value)
        ELSE [status |-> nav.status, buf |-> data]

\* Whether that body touches the mapped memory at all (a view of a nested
\* structure is made without reading it).
WriteTouches(key, value) ==
    LET zero == [i \in 1..SizeInCells |-> 0]
        nav == Navigate(zero, Root, SubSeq(key, 1, Len(key) - 1))
    IN  \/ nav.status = "ok" /\ nav.obj.kind = "leaf"
        \/ /\ nav.status = "ok"
           /\ WriteDataOn(zero, key, value).status = "ok"
           /\ key[Len(key)] \in Fields(nav.obj.ty)
        \/ /\ nav.status # "ok"
           /\ \E n \in 1..(Len(key) - 1) :
                  LET m == Navigate(zero, Root, SubSeq(key, 1, n))
                  IN  m.status = "ok" /\ m.obj.kind = "leaf"

writeData(a, key, value) ==
    LET st == MapState(a)
        r == WriteDataOn(fileData, key, value)
        status == CASE st = "none" -> "ok"
                    [] st = "small" -> "ValueError"
                    [] st = "bus" -> IF WriteTouches(key, value)
                                     THEN "SIGBUS" ELSE r.status
                    [] OTHER -> r.status
    IN  /\ last' = Call(a, "writeData", key, value, status, NoneV)
        /\ fileData' = IF st = "ok" THEN r.buf ELSE fileData
        /\ IF status = "SIGBUS" THEN Killed(a) ELSE UNCHANGED mm
        /\ UNCHANGED <<fileExists, clock, fs_master, mm_master>>
        /\ UNCHANGED <<otherVars, orphans>>

\* DataStructMmapEditor.referMappedBuffer
referMappedBuffer(a) ==
    /\ last' = Call(a, "referMappedBuffer", <<>>, NoneV,
                    IF MapState(a) = "small" THEN "ValueError" ELSE "ok",
                    IF MapState(a) \in {"ok", "bus"}
                    THEN [k |-> "view", n |-> 0] ELSE NoneV)
    /\ UNCHANGED <<fileExists, fileData, clock, mm, fs_master, mm_master>>
    /\ UNCHANGED <<otherVars, orphans>>

\* DataStructMmapEditor.clearMappedBuffer
clearMappedBuffer(a) ==
    /\ last' = Call(a, "clearMappedBuffer", <<>>, NoneV, GuardedError(a), NoneV)
    /\ fileData' = IF MapState(a) = "ok" THEN Memset0(fileData) ELSE fileData
    /\ IF MapState(a) = "bus" THEN Killed(a) ELSE UNCHANGED mm
    /\ UNCHANGED <<fileExists, clock, fs_master, mm_master>>
    /\ UNCHANGED <<otherVars, orphans>>

\* The caller assigns a field of the record the last call returned
\* to it: a record made by from_buffer_copy has memory of its own, one made by
\* from_buffer is the mapping.
SetInputs == { << <<"speed">>, FloatV(1) >>, << <<"pos", "x">>, IntV(1) >> }

setReturned(a, key, value) ==
    /\ last.acc = a /\ last.status = "ok"
    /\ last.op \in {"readMappedBuffer", "referMappedBuffer"}
    /\ last.ret.k \in {"struct", "view"}
    /\ IF last.ret.k = "struct"
       THEN /\ last' = Call(a, "setReturned", key, value, "ok",
                             StructV("Telemetry",
                                     WriteDataOn(last.ret.cells, key, value).buf))
            /\ UNCHANGED <<fileData, mm>>
       ELSE /\ last' = Call(a, "setReturned", key, value,
                             IF MapState(a) = "ok" THEN "ok" ELSE "SIGBUS",
                             last.ret)
            /\ fileData' = IF MapState(a) = "ok"
                           THEN WriteDataOn(fileData, key, value).buf
                           ELSE fileData
            /\ IF MapState(a) = "ok" THEN UNCHANGED mm ELSE Killed(a)
    /\ UNCHANGED <<fileExists, clock, fs_master, mm_master>>
    /\ UNCHANGED <<otherVars, orphans>>

\* ------------------------------------------------------- the specification
Next ==
    \/ Tick
    \/ \E create, force \in BOOLEAN, io \in IoOutcomes : ManagerInit(create, force, io)
    \/ \E a \in SeqAccessors \cap Editors : openStore(a)
    \/ \E a \in SeqAccessors \cap Managers, release \in BOOLEAN : openMemory(a, release)
    \/ \E a \in SeqAccessors \cap Managers : closeMemory(a)
    \/ \E a \in SeqAccessors : getLastUpdate(a)
    \/ \E a \in SeqAccessors, key \in Keys : readData(a, key)
    \/ \E a \in SeqAccessors : readMappedBuffer(a)
    \/ \E a \in SeqAccessors : updateLastUpdate(a)
    \/ \E a \in SeqAccessors, w \in WriteInputs : writeData(a, w[1], w[2])
    \/ \E a \in SeqAccessors : referMappedBuffer(a)
    \/ \E a \in SeqAccessors : clearMappedBuffer(a)
    \/ \E a \in SeqAccessors, w \in SetInputs : setReturned(a, w[1], w[2])

Spec == Init /\ [][Next]_vars

\* ================================================= calls that interleave
\* Each accessor lives in a process of its own, and no call takes the lock of
\* fastenerFilePath: the calls of different processes interleave at the
\* granularity of their accesses to the mapped memory. A copy of the record
\* (from_buffer_copy) and its zeroing (memset) move one cell at a time; the
\* store of one field is one access; open(path, "wb") and the write after it
\* are two system calls.

ReadOps == {"readMappedBuffer", "readData"}
WriteOps == {"writeData", "updateLastUpdate", "clearMappedBuffer"}

\* The calls made while interleaving: both Editors write, one of them reads.
ConcWrites ==
    {[op |-> "updateLastUpdate", key |-> <<>>, val |-> NoneV],
     [op |-> "clearMappedBuffer", key |-> <<>>, val |-> NoneV],
     [op |-> "writeData", key |-> <<"speed">>, val |-> FloatV(1)],
     [op |-> "writeData", key |-> <<"pos", "x">>, val |-> IntV(1)]}
ConcReads ==
    {[op |-> "readMappedBuffer", key |-> <<>>, val |-> NoneV],
     [op |-> "readData", key |-> <<"pos", "x">>, val |-> NoneV]}
ConcCalls(a) == IF a = "e1" THEN ConcWrites \cup ConcReads ELSE ConcWrites

\* An accessor is inside a call.
InSection(a) == proc[a].pc # "idle"

\* The accessors in the middle of a write call, given the calls in progress.
PendingWrites(pr) == {b \in Editors : pr[b].pc # "idle" /\ pr[b].op \in WriteOps}

\* What the write call of b does to record s when it runs alone.
Effect(pr, b, s) ==
    IF Len(s) < SizeInCells THEN s
    ELSE CASE pr[b].op = "writeData" -> WriteDataOn(s, pr[b].key, pr[b].val).buf
           [] pr[b].op = "updateLastUpdate" -> UpdateLastUpdateOn(s, clock)
           [] pr[b].op = "clearMappedBuffer" -> Memset0(s)
           [] OTHER -> s

\* A write call begins: a read in progress that no write call has overlapped
\* so far, and that began with no write call in progress, may return the
\* record as it was when the read began or as this write alone makes it.
\* With a second overlapping write call, nothing is said of the read (a write
\* call that leaves the record as it was counts as none).
CandsOnWrite(pr, b) ==
    [a \in Editors |->
        IF a # b /\ pr[a].pc # "idle" /\ pr[a].op \in ReadOps
        THEN IF Cardinality(cands[a].set) = 1
             THEN [cands[a] EXCEPT
                     !.set = @ \cup {Effect(pr, b, s) : s \in cands[a].set}]
             ELSE [cands[a] EXCEPT !.any = TRUE]
        ELSE cands[a]]

\* A read call begins.
CandsOnRead(a) ==
    [cands EXCEPT ![a] = IF PendingWrites(proc) = {}
                         THEN [any |-> FALSE, set |-> {FromBuffer(fileData)}]
                         ELSE [any |-> TRUE, set |-> {}]]

UnchangedSeqButFile ==
    UNCHANGED <<clock, fs_master, mm_master, last, orphans, creating, pathVars>>

\* A call begins: self.mm is not None; seek(0), and from_buffer_copy or
\* from_buffer.
cBegin(a, c) ==
    /\ proc[a].pc = "idle" /\ MapState(a) = "ok"
    /\ LET pr == [proc EXCEPT ![a] =
                    [pc |-> CASE c.op \in ReadOps -> "copy"
                              [] c.op = "writeData" -> "store"
                              [] c.op = "updateLastUpdate" -> "stamp"
                              [] c.op = "clearMappedBuffer" -> "memset",
                     op |-> c.op, key |-> c.key, val |-> c.val,
                     buf |-> <<>>]]
       IN  /\ proc' = pr
           /\ cands' = IF c.op \in ReadOps
                       THEN CandsOnRead(a) ELSE CandsOnWrite(pr, a)
    /\ UNCHANGED <<fileExists, fileData, mm, expect>>
    /\ UnchangedSeqButFile

\* from_buffer_copy copies the next cell of the mapping.
cCopy(a) ==
    /\ proc[a].pc = "copy" /\ MapState(a) = "ok"
    /\ LET b == Append(proc[a].buf, fileData[Len(proc[a].buf) + 1])
       IN  proc' = [proc EXCEPT ![a].buf = b,
                                ![a].pc = IF Len(b) = SizeInCells
                                          THEN "decode" ELSE "copy"]
    /\ UNCHANGED <<fileExists, fileData, mm, cands, expect>>
    /\ UnchangedSeqButFile

\* The result of a read, decoded from its copy buf of the record.
ReadResult(op, key, buf) ==
    IF op = "readMappedBuffer" THEN StructV("Telemetry", buf)
    ELSE ReadDataOn(buf, key).ret

\* The read returns what it decodes from its copy.
cReturn(a) ==
    /\ proc[a].pc = "decode"
    /\ proc' = [proc EXCEPT ![a] = IdleProc]
    /\ cands' = [cands EXCEPT ![a] = NoCands]
    /\ UNCHANGED <<fileExists, fileData, mm, expect>>
    /\ UnchangedSeqButFile

\* A writeData that builds a default record, sets its field in it and writes
\* the whole record back.
WriteStoreOn_WholeRecord(data, key, value) ==
    WriteDataOn(GenerateStruct(data[StampCell]), key, value).buf

\* The cells of the mapping after writeData stores its field: setattr on the
\* view made by from_buffer writes through to the mapping as it is now.
WriteStoreOn(data, key, value) == WriteDataOn(data, key, value).buf

cStore(a) ==
    /\ proc[a].pc = "store" /\ MapState(a) = "ok"
    /\ fileData' = WriteStoreOn(fileData, proc[a].key, proc[a].val)
    /\ proc' = [proc EXCEPT ![a] = IdleProc]
    /\ expect' = [expect EXCEPT ![KeyCell(proc[a].key)] =
                     [by |-> a, cell |-> fileData'[KeyCell(proc[a].key)],
                      raced |-> \E b \in Editors \ {a} : proc[b].pc = "store"]]
    /\ UNCHANGED <<fileExists, mm, cands>>
    /\ UnchangedSeqButFile

\* updateLastUpdate stores time.time() in the header.
cStamp(a) ==
    /\ proc[a].pc = "stamp" /\ MapState(a) = "ok"
    /\ fileData' = UpdateLastUpdateOn(fileData, clock)
    /\ proc' = [proc EXCEPT ![a] = IdleProc]
    /\ expect' = [expect EXCEPT ![StampCell] = NoExpect]
    /\ UNCHANGED <<fileExists, mm, cands>>
    /\ UnchangedSeqButFile

\* memset zeroes the next cell; after the last one the call returns.
cMemset(a) ==
    /\ proc[a].pc = "memset" /\ MapState(a) = "ok"
    /\ LET i == Len(proc[a].buf) + 1
       IN  /\ fileData' = [fileData EXCEPT ![i] = 0]
           /\ expect' = [expect EXCEPT ![i] = NoExpect]
           /\ proc' = IF i = SizeInCells
                      THEN [proc EXCEPT ![a] = IdleProc]
                      ELSE [proc EXCEPT ![a].buf = Append(@, 0)]
    /\ UNCHANGED <<fileExists, mm, cands>>
    /\ UnchangedSeqButFile

ConcNext ==
    \/ \E a \in Editors : \E c \in ConcCalls(a) : cBegin(a, c)
    \/ \E a \in Editors : cCopy(a)
    \/ \E a \in Editors : cReturn(a)
    \/ \E a \in Editors : cStore(a)
    \/ \E a \in Editors : cStamp(a)
    \/ \E a \in Editors : cMemset(a)

\* The store was created at time 1, both Editors have opened it, and no call
\* is in progress.
ConcInit ==
    /\ fileExists = TRUE /\ fileData = GenerateStruct(1)
    /\ clock = 2
    /\ mm = [a \in Accessors |-> IF a \in Editors THEN SizeInCells ELSE NoMap]
    /\ fs_master = [a \in Managers |-> "None"]
    /\ mm_master = [a \in Managers |-> NoMap]
    /\ last = NoCall
    /\ proc = [a \in Editors |-> IdleProc]
    /\ cands = [a \in Editors |-> NoCands]
    /\ expect = [c \in 1..SizeInCells |-> NoExpect]
    /\ OtherInit
    /\ tags = [i \in Instances |-> <<>>]

ConcSpec == ConcInit /\ [][ConcNext]_vars

\* ================================================ a construction in steps
\* The constructor of a Manager in a process of its own, create set: the test
\* of force and exists(), then open(path, "wb"), then the write, are steps
\* between which the other processes run.
crBegin(force) ==
    /\ creating.pc = "idle"
    /\ IF force \/ ~fileExists
       THEN /\ creating' = [pc |-> "open", force |-> force,
                            dataStruct |-> GenerateStruct(clock)]
            /\ UNCHANGED last
       ELSE /\ UNCHANGED creating
            /\ last' = Call("new", "init", <<>>,
                             [k |-> "args", create |-> TRUE, force |-> force],
                             "ok", NoneV)
    /\ UNCHANGED <<fileExists, fileData, clock, mm, fs_master, mm_master,
                   concVars, orphans, pathVars>>

\* open(self.mmapFilePath, "wb"): the file is created, or truncated to empty;
\* a failure is swallowed and the constructor returns.
crOpen(io) ==
    /\ creating.pc = "open"
    /\ IF io = "ok"
       THEN /\ fileExists' = TRUE /\ fileData' = <<>>
            /\ creating' = [creating EXCEPT !.pc = "write"]
            /\ UNCHANGED last
       ELSE /\ UNCHANGED <<fileExists, fileData>>
            /\ creating' = IdleCreate
            /\ last' = Call("new", "init", <<>>,
                             [k |-> "args", create |-> TRUE, force |-> creating.force],
                             "ok", NoneV)
    /\ UNCHANGED <<clock, mm, fs_master, mm_master, concVars, orphans, pathVars>>

\* fs.write(dataStruct) and the close of the file; a failure is swallowed.
crWrite(io) ==
    /\ creating.pc = "write"
    /\ fileData' = IF io = "ok" THEN creating.dataStruct ELSE fileData
    /\ creating' = IdleCreate
    /\ last' = Call("new", "init", <<>>,
                    [k |-> "args", create |-> TRUE, force |-> creating.force],
                    "ok", NoneV)
    /\ UNCHANGED <<fileExists, clock, mm, fs_master, mm_master, concVars,
                   orphans, pathVars>>

\* The other processes meanwhile: an Editor and a Manager that open, read and
\* close.
CreateNext ==
    \/ Tick
    \/ \E force \in BOOLEAN : crBegin(force)
    \/ \E io \in {"ok", "openFail"} : crOpen(io)
    \/ \E io \in {"ok", "writeFail"} : crWrite(io)
    \/ openStore("e1")
    \/ \E release \in BOOLEAN : openMemory("m1", release)
    \/ closeMemory("m1")
    \/ readMappedBuffer("e1")
    \/ getLastUpdate("e1")

\* The file is absent, or is a store created at time 1.
CreateInit ==
    /\ \/ fileExists = FALSE /\ fileData = <<>>
       \/ fileExists = TRUE /\ fileData = GenerateStruct(1)
    /\ clock = 1
    /\ mm = [a \in Accessors |-> NoMap]
    /\ fs_master = [a \in Managers |-> "None"]
    /\ mm_master = [a \in Managers |-> NoMap]
    /\ last = NoCall
    /\ proc = [a \in Editors |-> IdleProc]
    /\ cands = [a \in Editors |-> NoCands]
    /\ expect = [c \in 1..SizeInCells |-> NoExpect]
    /\ OtherInit
    /\ tags = [i \in Instances |-> <<>>]

CreateSpec == CreateInit /\ [][CreateNext]_vars

\* ======================================================= path derivation
\* BaseStructMmapManager.__init__ of instance i: the two paths of its key.
BaseInit(i) ==
    /\ paths[i] = NoPaths
    /\ paths' = [paths EXCEPT ![i] =
                    [mmapFilePath |-> MmapFilePath(StructName, tags[i]),
                     fastenerFilePath |-> FastenerFilePath(StructName, tags[i])]]
    /\ UNCHANGED <<fileExists, fileData, clock, mm, fs_master, mm_master, last,
                   concVars, orphans, creating, tags>>

PathNext == \E i \in Instances : BaseInit(i)

\* Two instances are about to be constructed, each with any tag.
PathInit ==
    /\ fileExists = FALSE /\ fileData = <<>>
    /\ clock = 1
    /\ mm = [a \in Accessors |-> NoMap]
    /\ fs_master = [a \in Managers |-> "None"]
    /\ mm_master = [a \in Managers |-> NoMap]
    /\ last = NoCall
    /\ proc = [a \in Editors |-> IdleProc]
    /\ cands = [a \in Editors |-> NoCands]
    /\ expect = [c \in 1..SizeInCells |-> NoExpect]
    /\ OtherInit
    /\ tags \in [Instances -> Tags]

PathSpec == PathInit /\ [][PathNext]_vars

\* ======================================================== claims: Spec
FieldOps ==
    {"readData", "readMappedBuffer", "writeData", "clearMappedBuffer",
     "referMappedBuffer"}

\* This step is a call of op (every call sets last; time passing does not).
Called(op) == last'.op = op /\ UNCHANGED <<clock, concVars>>

\* The store of accessor a is open and decodable.
StoreOpen(a) == a \in Accessors /\ MapState(a) = "ok"

\* The accessor owns no region: no mapping as self.mm or self.mm_master.
NoRegion(a) == mm[a] = NoMap /\ (a \in Managers => mm_master[a] = NoMap)

\* The Manager was opened and then closed.
Closed(a) == a \in Managers /\ fs_master[a] = "closed" /\ mm_master[a] = NoMap

\* v is a value of the type of the leaf at key.
Representable(key, v) ==
    IF KeyType(key) = "c_uint8"
    THEN v.k = "int" /\ v.n \in 0..(UInt8Mod - 1)
    ELSE v.k = "float"

\* C4: constructing a Manager with create, when force is set or the file does
\* not exist, leaves a file of exactly sizeInBytes() holding the magic, the
\* creation time and a zero payload, whatever the file held before.
C4_CreateLeavesFreshFile ==
    [][\A force \in BOOLEAN, io \in IoOutcomes :
          (ManagerInit(TRUE, force, io) /\ (force \/ ~fileExists))
              => (fileExists' /\ fileData' = GenerateStruct(clock))]_vars

\* C5: constructing a Manager leaves the file as it is (existence, length and
\* every cell) when create is false, and when create is true, force is false
\* and the file exists.
C5_EnsureStoreLeavesFile ==
    [][(/\ Called("init")
        /\ ~last'.val.create \/ (~last'.val.force /\ fileExists))
          => UNCHANGED <<fileExists, fileData>>]_vars

\* A store whose payload was written survives a construction with create and
\* without force.
C5_Witness ==
    /\ last.op = "init" /\ last.val.create /\ ~last.val.force
    /\ fileExists /\ Len(fileData) = SizeInCells
    /\ fileData[SpeedCell] # 0

\* C6: the header time_stamp of a store changes only in a step that is
\* updateLastUpdate (creating the file anew aside).
C6_StampOnlyByUpdate ==
    [][(/\ Len(fileData) >= StampCell /\ Len(fileData') >= StampCell
        /\ fileData'[StampCell] # fileData[StampCell]
        /\ last'.op # "init")
          => last'.op = "updateLastUpdate"]_vars

AllZero(cells) == \A c \in 1..SizeInCells : cells[c] = 0

C9_NotOpenSentinel ==
    [][\A a \in Accessors :
          (/\ NoRegion(a) /\ last'.acc = a
           /\ Called("getLastUpdate") \/ Called("updateLastUpdate"))
             => /\ last'.status = "ok"
                /\ last'.op = "getLastUpdate" => last'.ret = IntV(NotOpenStamp)
                /\ UNCHANGED <<fileExists, fileData, mm, fs_master, mm_master>>]_vars

\* getLastUpdate answered -1 on an accessor with no region, the file existing.
C9_Witness ==
    /\ last.op = "getLastUpdate" /\ last.acc \in Accessors
    /\ NoRegion(last.acc) /\ last.ret = IntV(NotOpenStamp)
    /\ fileExists /\ Len(fileData) = SizeInCells

\* C10: after closeMemory, every field or snapshot operation of that accessor
\* fails: none returns normally.
C10_ClosedStoreFails ==
    [][\A a \in Managers :
          (/\ Closed(a)
           /\ last' # last /\ last'.acc = a /\ last'.op \in FieldOps)
             => last'.status # "ok"]_vars

\* The Manager owns no open handle: nothing to unmap, nothing to close.
NotOpen(a) == a \in Managers /\ mm_master[a] = NoMap /\ fs_master[a] # "open"

\* C11: closeMemory raises nothing, unmaps before it closes the descriptor,
\* leaves neither open, and changes nothing when the region is not open
\* (never opened, or closed already).
C11_CloseIdempotent ==
    [][\A a \in Managers :
          closeMemory(a)
            => /\ last'.status = "ok"
               /\ mm_master[a] # NoMap
                    => last'.ret.seq = <<"mm_master", "fs_master">>
               /\ mm_master'[a] = NoMap /\ fs_master'[a] # "open"
               /\ NotOpen(a)
                    => UNCHANGED <<fileExists, fileData, mm, fs_master,
                                   mm_master, orphans>>]_vars

\* closeMemory was called on a Manager closed before: the region it had
\* mapped is gone and close() was called on the closed descriptor again.
C11_Witness ==
    /\ last.op = "closeMemory" /\ last.status = "ok"
    /\ last.ret.n = 1 /\ last.ret.seq = <<"fs_master">>
    /\ fs_master[last.acc] = "closed" /\ mm_master[last.acc] = NoMap

\* C13: opening a store whose file has not the length of the record fails
\* with CorruptStoreError, leaves no region or descriptor open, and leaves
\* the file as it is.
C13_WrongSizeOpenFails ==
    [][\A a \in Accessors :
          (/\ Called("openStore") \/ Called("openMemory")
           /\ last'.acc = a
           /\ fileExists /\ Len(fileData) # SizeInCells)
            => /\ last'.status = "CorruptStoreError"
               /\ mm'[a] = NoMap
               /\ a \in Managers
                    => mm_master'[a] = NoMap /\ fs_master'[a] # "open"
               /\ UNCHANGED <<fileExists, fileData>>]_vars

\* C17: while the region a Manager opened with openMemory is mapped on a
\* whole record, that Manager's getLastUpdate returns the stored time_stamp
\* and its updateLastUpdate, clearMappedBuffer and writeData change the file.
C17_ManagerActsOnItsRegion ==
    [][\A a \in Managers :
          (mm_master[a] = SizeInCells /\ Len(fileData) = SizeInCells
             /\ last'.acc = a)
            => /\ Called("getLastUpdate")
                    => last'.ret = FloatV(fileData[StampCell])
               /\ Called("updateLastUpdate") => fileData'[StampCell] = clock
               /\ Called("clearMappedBuffer") => AllZero(fileData')
               /\ (Called("writeData") /\ last'.key = <<"speed">>
                      /\ last'.val = FloatV(1))
                    => fileData'[SpeedCell] = 1]_vars

C12_CreationFailureReported ==
    [][\A force \in BOOLEAN, io \in IoOutcomes \ {"ok"} :
          (ManagerInit(TRUE, force, io) /\ (force \/ ~fileExists))
              => last'.status = "StoreCreationError"]_vars

\* C15: readData, getLastUpdate and readMappedBuffer leave the file as it is,
\* and so does an assignment to a field of the record readMappedBuffer
\* returned.
C15_ReadersChangeNothing ==
    [][/\ (Called("readData") \/ Called("getLastUpdate")
             \/ Called("readMappedBuffer"))
            => UNCHANGED <<fileExists, fileData>>
       /\ (Called("setReturned") /\ last.op = "readMappedBuffer")
            => UNCHANGED <<fileExists, fileData>>]_vars

\* A field of a snapshot of an open store was set to 1 while the store holds
\* 0 in it.
C15_Witness ==
    /\ last.op = "setReturned" /\ last.ret.k = "struct"
    /\ StoreOpen(last.acc)
    /\ last.key = <<"speed">> /\ last.ret.cells[SpeedCell] = 1
    /\ fileData[SpeedCell] = 0

\* The path resolves against the layout: every segment is a field of the
\* structure reached so far, and every segment but the last is a structure.
RECURSIVE ResolvesIn(_, _)
ResolvesIn(ty, key) ==
    \/ key = <<>>
    \/ /\ Head(key) \in Fields(ty)
       /\ \/ Len(key) = 1
          \/ /\ FieldType(ty, Head(key)) \in StructTypes
             /\ ResolvesIn(FieldType(ty, Head(key)), Tail(key))

\* C16: on an open store, readData and writeData of a path that does not
\* resolve (a segment is no field at its level, or a segment before the last
\* is a leaf) fail.
C16_UnresolvedPathFails ==
    [][(/\ Called("readData") \/ Called("writeData")
        /\ StoreOpen(last'.acc)
        /\ ~ResolvesIn("Telemetry", last'.key))
          => last'.status # "ok"]_vars

\* The value is of the declared type of the field: an int for an integer
\* field, a float for a floating-point field.
TypeMatches(ft, v) ==
    IF ft \in {"c_uint8", "c_uint32"} THEN v.k = "int"
    ELSE ft \in {"c_float", "c_double"} /\ v.k = "float"

\* C20: on an open store, a writeData that fails changes no cell, and a
\* writeData of a value that is not of the field's type fails and changes no
\* cell.
C20_FailedWriteStoresNothing ==
    [][(Called("writeData") /\ StoreOpen(last'.acc))
          => /\ last'.status # "ok" => fileData' = fileData
             /\ (last'.key \in LeafKeys
                    /\ ~TypeMatches(KeyType(last'.key), last'.val))
                  => (last'.status # "ok" /\ fileData' = fileData)]_vars

\* ==================================================== claims: ConcSpec
\* C1: every call holds the lock of the key while it touches the mapping, so
\* no two processes are inside a call on the same key at the same time.
C1_MutualExclusion ==
    \A a, b \in Editors : a # b => ~(InSection(a) /\ InSection(b))

\* What any reader decodes at key from the store as it is now.
Visible(key) == ReadDataOn(FromBuffer(fileData), key).ret

\* C2: when the two Editors have written disjoint paths, in any interleaving
\* of the two calls, then once both have returned every reader decodes both
\* written values.
C2_NoLostUpdates ==
    \A k1, k2 \in LeafKeys :
        (/\ k1 # k2
         /\ expect[KeyCell(k1)].by # "" /\ expect[KeyCell(k2)].by # ""
         /\ expect[KeyCell(k1)].by # expect[KeyCell(k2)].by)
            => /\ Visible(k1) = Decode(KeyType(k1), expect[KeyCell(k1)].cell)
               /\ Visible(k2) = Decode(KeyType(k2), expect[KeyCell(k2)].cell)

\* Both calls have returned; e2 stored its field while the call of e1 was
\* between making its view and storing its field.
C2_Witness ==
    /\ \A a \in Editors : ~InSection(a)
    /\ expect[SpeedCell] = [by |-> "e1", cell |-> 1, raced |-> FALSE]
    /\ expect[XCell] = [by |-> "e2", cell |-> 1, raced |-> TRUE]
    /\ Visible(<<"speed">>) = FloatV(1) /\ Visible(<<"pos", "x">>) = IntV(1)

\* C3: a read that one write call of another process overlaps returns the
\* record as it was before that call or as it is after it, never a mix.
C3_NoTornRead ==
    \A a \in Editors :
        (proc[a].pc = "decode" /\ ~cands[a].any)
            => ReadResult(proc[a].op, proc[a].key, proc[a].buf)
                   \in {ReadResult(proc[a].op, proc[a].key, s) : s \in cands[a].set}

\* ==================================================== claims: PathSpec
\* C14: with the same directories, two instances of the same struct have the
\* same data file and the same lock file when their tags are equal, and
\* different data files when their tags differ.
C14_PathInjective ==
    \A i, j \in Instances :
        (paths[i] # NoPaths /\ paths[j] # NoPaths)
            => /\ (tags[i] = tags[j]) <=>
                      (paths[i].mmapFilePath = paths[j].mmapFilePath)
               /\ (tags[i] = tags[j]) =>
                      (paths[i].fastenerFilePath = paths[j].fastenerFilePath)

\* ================================================== claims: CreateSpec
\* C18: whenever the backing file exists it has exactly the length of the
\* record, also while another process constructs a Manager with create and
\* force.
C18_FileAlwaysWhole == fileExists => Len(fileData) = SizeInCells

====
